---- MODULE Spec2Model ----
(***************************************************************************)
(* Model of src/main.c: the SC8P052 blink program.                         *)
(*                                                                         *)
(*     TRISB = 0x00;                                                       *)
(*     while(1) { PORTB = 0x01; _delay(100000);                            *)
(*                PORTB = 0x00; _delay(100000); }                          *)
(*                                                                         *)
(* The state is the two 8-bit special function registers, the position of  *)
(* main, and the cycles the running _delay still has to spin.  The other   *)
(* variables are observers (what a logic analyser on the port would        *)
(* record); they never influence the program.                              *)
(***************************************************************************)
EXTENDS Integers, Sequences, FiniteSets, TLC

VARIABLES
    pc,           \* position of main: "init", "set_high", "delay_high", "set_low", "delay_low"
    TRISB,        \* direction register, 8 bit
    PORTB,        \* output register, 8 bit
    remaining,    \* instruction cycles the running _delay has left to spin
    spun,         \* observer: cycles the current / last _delay has spun
    trisWrites,   \* observer: number of writes of TRISB
    portbWritten, \* observer: has the program written PORTB yet
    writes,       \* observer: the values written to PORTB, in order (first MaxIter iterations)
    iter,         \* observer: completed iterations of while(1), saturating at MaxIter
    highCount,    \* observer: delay cycles spun while RB0 was high (first MaxIter iterations)
    lowCount      \* observer: delay cycles spun while RB0 was low  (first MaxIter iterations)

vars == <<pc, TRISB, PORTB, remaining, spun, trisWrites, portbWritten,
          writes, iter, highCount, lowCount>>

-----------------------------------------------------------------------------
(* Program constants *)

\* #define _XTAL_FREQ 8000000
XTAL_FREQ == 8000000

\* the argument of the first  _delay(...) of the loop body
HighDelayCount == 100000

\* the argument of the second _delay(...) of the loop body
LowDelayCount == 100000

(* Bounds of the model *)

\* iterations of while(1) the observers record; the program itself never stops
MaxIter == 5

\* instruction cycles one step of a busy-wait covers
TickCycles == 25000

\* saturation of the TRISB write counter
MaxTrisWrites == 3

-----------------------------------------------------------------------------
(* Helpers *)

Byte == 0 .. 255

Bit(v, i) == (v \div (2 ^ i)) % 2

Min(a, b) == IF a < b THEN a ELSE b

\* values of the clock constant the C8 formulas compare: the one the source
\* defines and others a build could define in its place
XtalFreqs == {1000000, 4000000, XTAL_FREQ, 16000000}

Recording == iter < MaxIter

\* mutant: the count is scaled by the clock constant, as the __delay_us macro does
DelayCycles_Scaled(count, xtal) == (count * (xtal \div 4000)) \div 1000

\* _delay(count): the cycles spun are the literal argument; the clock
\* constant does not occur in the call
DelayCycles(count, xtal) == count

-----------------------------------------------------------------------------
(* Initial state: main is entered after reset.  The source initialises     *)
(* neither register, so their reset-time contents are any byte.            *)

Init ==
    /\ pc = "init"
    /\ TRISB \in Byte
    /\ PORTB \in Byte
    /\ remaining = 0
    /\ spun = 0
    /\ trisWrites = 0
    /\ portbWritten = FALSE
    /\ writes = << >>
    /\ iter = 0
    /\ highCount = 0
    /\ lowCount = 0

-----------------------------------------------------------------------------
(* Statements of main *)

\* mutant: all pins left as inputs
SetDirection_AllOnes ==
    /\ pc = "init"
    /\ TRISB' = 255
    /\ trisWrites' = Min(trisWrites + 1, MaxTrisWrites)
    /\ pc' = "set_high"
    /\ UNCHANGED <<PORTB, remaining, spun, portbWritten, writes, iter,
                   highCount, lowCount>>

\* TRISB = 0x00;
SetDirection ==
    /\ pc = "init"
    /\ TRISB' = 0
    /\ trisWrites' = Min(trisWrites + 1, MaxTrisWrites)
    /\ pc' = "set_high"
    /\ UNCHANGED <<PORTB, remaining, spun, portbWritten, writes, iter,
                   highCount, lowCount>>

\* the write of PORTB and the call of _delay that follows it
WritePort(value, count, next) ==
    /\ PORTB' = value
    /\ portbWritten' = TRUE
    /\ writes' = IF Recording THEN Append(writes, value) ELSE writes
    /\ remaining' = DelayCycles(count, XTAL_FREQ)
    /\ spun' = 0
    /\ pc' = next
    /\ UNCHANGED <<TRISB, trisWrites, iter, highCount, lowCount>>

\* mutant: the direction register is rewritten in the loop
SetHigh_RewritesTRISB ==
    /\ pc = "set_high"
    /\ PORTB' = 1
    /\ TRISB' = 0
    /\ trisWrites' = Min(trisWrites + 1, MaxTrisWrites)
    /\ portbWritten' = TRUE
    /\ writes' = IF Recording THEN Append(writes, 1) ELSE writes
    /\ remaining' = DelayCycles(HighDelayCount, XTAL_FREQ)
    /\ spun' = 0
    /\ pc' = "delay_high"
    /\ UNCHANGED <<iter, highCount, lowCount>>

\* mutant: the whole port is driven high
SetHigh_AllPins ==
    /\ pc = "set_high"
    /\ WritePort(255, HighDelayCount, "delay_high")

\* PORTB = 0x01;  followed by  _delay(100000)
SetHigh ==
    /\ pc = "set_high"
    /\ WritePort(1, HighDelayCount, "delay_high")

\* mutant: RB0 is not cleared
SetLow_StaysHigh ==
    /\ pc = "set_low"
    /\ WritePort(1, LowDelayCount, "delay_low")

\* mutant: the low half waits half as long
SetLow_ShortDelay ==
    /\ pc = "set_low"
    /\ WritePort(0, LowDelayCount \div 2, "delay_low")

\* PORTB = 0x00;  followed by  _delay(100000)
SetLow ==
    /\ pc = "set_low"
    /\ WritePort(0, LowDelayCount, "delay_low")

\* one step of a busy-wait: TickCycles more cycles are spun (or what is
\* left); when none is left, control goes on to `next`
Spin(next, loops) ==
    LET step == Min(TickCycles, remaining) IN
    /\ remaining' = remaining - step
    /\ spun' = spun + step
    /\ highCount' = IF Recording /\ Bit(PORTB, 0) = 1 THEN highCount + step ELSE highCount
    /\ lowCount' = IF Recording /\ Bit(PORTB, 0) = 0 THEN lowCount + step ELSE lowCount
    /\ pc' = IF remaining' = 0 THEN next ELSE pc
    /\ iter' = IF remaining' = 0 /\ loops THEN Min(iter + 1, MaxIter) ELSE iter
    /\ UNCHANGED <<trisWrites, portbWritten, writes>>

\* mutant: the busy-wait clobbers the output register
DelayHigh_ClearsPort ==
    /\ pc = "delay_high"
    /\ Spin("set_low", FALSE)
    /\ PORTB' = 0
    /\ UNCHANGED TRISB

\* mutant: the low half of the loop body is skipped
DelayHigh_SkipsLow ==
    /\ pc = "delay_high"
    /\ Spin("set_high", TRUE)
    /\ UNCHANGED <<TRISB, PORTB>>

\* _delay(100000);  while RB0 is high
DelayHigh ==
    /\ pc = "delay_high"
    /\ Spin("set_low", FALSE)
    /\ UNCHANGED <<TRISB, PORTB>>

\* mutant: the loop is left after the second busy-wait
DelayLow_Exits ==
    /\ pc = "delay_low"
    /\ Spin("done", TRUE)
    /\ UNCHANGED <<TRISB, PORTB>>

\* _delay(100000);  while RB0 is low, then back to the head of while(1)
DelayLow ==
    /\ pc = "delay_low"
    /\ Spin("set_high", TRUE)
    /\ UNCHANGED <<TRISB, PORTB>>

Next ==
    \/ SetDirection
    \/ SetHigh
    \/ DelayHigh
    \/ SetLow
    \/ DelayLow

Spec == Init /\ [][Next]_vars

\* the CPU always executes its next instruction, and a busy-wait finishes
FairSpec == Spec /\ WF_vars(Next)

-----------------------------------------------------------------------------
(* Properties *)

DelayPcs == {"delay_high", "delay_low"}

WritePcs == {"set_high", "set_low"}

AtLoopHead == pc = "set_high"

\* a step that writes PORTB sets bit 0 high if it is the first write, and
\* otherwise changes bit 0 from the value written before
WriteFlipsBit ==
    pc \in WritePcs =>
        IF portbWritten THEN Bit(PORTB', 0) # Bit(PORTB, 0)
                        ELSE Bit(PORTB', 0) = 1

\* C1: bit 0 of the values written to PORTB alternates high, low, high, ...:
\* the first write sets it high, and every later write changes the bit from
\* the value written before it.
C1_Alternates ==
    /\ [](\A i \in DOMAIN writes : Bit(writes[i], 0) = i % 2)
    /\ [][WriteFlipsBit]_vars

C1_Witness ==
    /\ Len(writes) >= 4
    /\ Bit(writes[3], 0) = 1
    /\ Bit(writes[4], 0) = 0

\* once main is past its first statement no step changes TRISB
DirectionStays == pc # "init" => TRISB' = TRISB

\* C2: TRISB is written exactly once, before the first write of PORTB, and
\* no step after that write changes it.
C2_WrittenOnce ==
    /\ [](pc = "init" => trisWrites = 0 /\ ~portbWritten)
    /\ [](pc # "init" => trisWrites = 1)
    /\ [][DirectionStays]_vars

C2_Witness == iter >= 2 /\ pc = "delay_low" /\ trisWrites = 1

\* C3 as stated: after the start-up write every one of the 8 direction bits
\* holds 1, the 'output' value of the encoding the spec states (1 = output).
C3_Original == pc # "init" => \A i \in 0 .. 7 : Bit(TRISB, i) = 1

\* C3 as amended: after the start-up write every one of the 8 direction bits
\* holds 0 (TRISB = 0x00), the value the source's comment gives for an
\* output pin, whatever the register held at reset.
C3_AllZero == pc # "init" => \A i \in 0 .. 7 : Bit(TRISB, i) = 0

C3_Witness == pc = "set_high" /\ iter = 0 /\ TRISB = 0

\* C4: every value written to PORTB is 0x01 or 0x00: bits 1..7 are low in
\* every write, and so in the register from the first write on.
C4_OnlyBitZero ==
    /\ \A i \in DOMAIN writes : writes[i] \in {0, 1}
    /\ portbWritten => \A b \in 1 .. 7 : Bit(PORTB, b) = 0

C4_Witness == Len(writes) >= 3 /\ PORTB = 1 /\ pc = "delay_high"

\* C5: the loop has no exit: a step of main is always enabled and, every
\* busy-wait finishing, RB0 is set high again and again and set low again
\* and again.
C5_RunsForever ==
    /\ [](ENABLED <<Next>>_vars)
    /\ []<>(pc = "delay_high" /\ spun = 0 /\ PORTB = 1)
    /\ []<>(pc = "delay_low" /\ spun = 0 /\ PORTB = 0)

C5_Witness == iter = MaxIter /\ pc = "delay_low" /\ spun = 0 /\ PORTB = 0

\* C6 as stated: when exactly 4 iterations of the loop have run, the levels
\* written to RB0 are HIGH, LOW, HIGH, LOW and nothing more.
C6_Original ==
    (AtLoopHead /\ iter = 4) =>
        [i \in DOMAIN writes |-> Bit(writes[i], 0)] = <<1, 0, 1, 0>>

\* C6 as amended: every iteration of the loop writes HIGH then LOW, so 4
\* iterations produce HIGH, LOW four times over (8 levels); HIGH, LOW, HIGH,
\* LOW and nothing more is the output of exactly 2 iterations.
C6_TwoLevelsPerIteration ==
    LET levels == [i \in DOMAIN writes |-> Bit(writes[i], 0)] IN
    /\ (AtLoopHead /\ iter = 4) => levels = <<1, 0, 1, 0, 1, 0, 1, 0>>
    /\ (AtLoopHead /\ iter = 2) => levels = <<1, 0, 1, 0>>

C6_Witness == AtLoopHead /\ iter = 4 /\ Len(writes) = 8

\* C7: at the end of every iteration the delay cycles spun with RB0 high
\* equal those spun with RB0 low: one busy-wait of the same count (100000)
\* in each half of each iteration.
C7_EqualHolds ==
    /\ HighDelayCount = LowDelayCount
    /\ AtLoopHead => /\ highCount = lowCount
                     /\ highCount = iter * HighDelayCount
    /\ pc = "set_low" => spun = HighDelayCount
    /\ (pc = "set_low" /\ Recording) => highCount = lowCount + HighDelayCount

C7_Witness == AtLoopHead /\ iter = 3 /\ highCount = 300000 /\ lowCount = 300000

\* C8 as stated: the cycles a busy-wait spins depend on the clock constant:
\* a build with another value of the constant would spin another number.
C8_Original ==
    pc \in DelayPcs =>
        \A f \in XtalFreqs \ {XTAL_FREQ} :
            DelayCycles(HighDelayCount, f) # spun + remaining

\* C8 as amended: the cycles a busy-wait spins are the literal count passed
\* to _delay (100000) and the same for every value of the clock constant,
\* which occurs nowhere in main.
C8_FixedByCount ==
    pc \in DelayPcs =>
        /\ spun + remaining = HighDelayCount
        /\ \A f \in XtalFreqs : DelayCycles(HighDelayCount, f) = spun + remaining

C8_Witness == pc = "delay_low" /\ spun = 50000 /\ remaining = 50000

\* a busy-wait step changes neither register
DelayKeepsRegisters == pc \in DelayPcs => (TRISB' = TRISB /\ PORTB' = PORTB)

\* a write step changes only the register it writes
WriteKeepsOtherRegister ==
    /\ pc \in WritePcs => TRISB' = TRISB
    /\ pc = "init" => PORTB' = PORTB

\* C9: a busy-wait step changes neither register (the pin holds the level
\* last written for the whole delay), and a write step changes only the
\* register it writes.
C9_Frame == [][DelayKeepsRegisters /\ WriteKeepsOtherRegister]_vars

C9_Witness == pc = "delay_high" /\ spun > 0 /\ remaining > 0 /\ PORTB = 1

\* C10: from the write of TRISB onward PORTB holds a value the program has
\* written, never its reset-time contents.
C10_NeverResetValue == pc # "init" => portbWritten

====
